---------------------------- MODULE Spec2Model ----------------------------
(***************************************************************************)
(* A model of amat, the Apple Messages analytics toolbox (src/amat.py),    *)
(* and of the part of src/sql2pandas.py that prepares the pickled table.   *)
(*                                                                         *)
(* A table (a pandas DataFrame) is a sequence of rows, a row a record.     *)
(* An instant is a number of minutes since 1900-01-01 00:00, a text a      *)
(* sequence of one-character strings.  Every operation of amat.py is an    *)
(* operator computing what the function returns, prints or plots, and an   *)
(* action that records the call and its outcome.                           *)
(***************************************************************************)
EXTENDS Integers, Sequences, FiniteSets, TLC

VARIABLES
    df,     \* the caller's table: what load_data returned
    calls,  \* the calls made on it, oldest first, each with its arguments
    out     \* the outcome of the last call: the exception raised or the
            \* table returned (df), and what the call printed or plotted
            \* (shown)

vars == <<df, calls, out>>

---------------------------------------------------------------------------
(* Helpers on sequences and numbers.                                       *)

Max(a, b) == IF a >= b THEN a ELSE b
Min(a, b) == IF a <= b THEN a ELSE b

\* The sequences over S of length 0..n.
SeqsUpTo(S, n) == UNION {[1..k -> S] : k \in 0..n}

\* s[from..to] with Python's 0-based, end-exclusive slice bounds s[from:to].
Slice(s, from, to) == SubSeq(s, from + 1, to)

\* An instant: day number since 1900-01-01, hour and minute.
At(day, hh, mm) == day * 1440 + hh * 60 + mm

---------------------------------------------------------------------------
(* src/sql2pandas.py: from the rows of the SQL query to the pickled table. *)

\* A text that SQLite holds as NULL (Python's None).
NoText == <<"NULL">>

\* len(x) if isinstance(x, str) else 0
TextLength(x) == IF x = NoText THEN 0 ELSE Len(x)

\* '💬' if x else '📢'
IoIcon(is_from_me) == IF is_from_me THEN "sent" ELSE "received"

\* df.astype({'text': 'str'}): str(None) is the four characters None.
AsTypeStr(x) == IF x = NoText THEN <<"N", "o", "n", "e">> ELSE x

\* The columns sql2pandas adds to a row before it pickles the table.
PickleRow(r) ==
    [guid |-> r.guid, chat_id |-> r.chat_id, is_from_me |-> r.is_from_me,
     date_utc |-> r.date_utc,
     length |-> TextLength(r.text),
     ioicon |-> IoIcon(r.is_from_me),
     text |-> AsTypeStr(r.text)]

\* The pickled table of the rows `raw`, which arrive in date order.
Pickle(raw) == [i \in DOMAIN raw |-> PickleRow(raw[i])]

\* The rows of the SQL query: guid is the row's number, the rows in date
\* order (sort_values at lines 46 and 106).
RawTables(chatIds, texts, froms, dates, n) ==
    {t \in SeqsUpTo([chat_id : chatIds, text : texts, is_from_me : froms,
                     date_utc : dates], n) :
        \A i \in 1..(Len(t) - 1) : t[i].date_utc <= t[i + 1].date_utc}

WithGuid(t) ==
    [i \in DOMAIN t |->
        [guid |-> i, chat_id |-> t[i].chat_id, text |-> t[i].text,
         is_from_me |-> t[i].is_from_me, date_utc |-> t[i].date_utc]]

---------------------------------------------------------------------------
(* load_data                                                               *)

\* Daylight saving time in US/Pacific in 2019: from 2019-03-10 10:00 UTC
\* to 2019-11-03 09:00 UTC.
DstStart2019 == At(43532, 10, 0)
DstEnd2019 == At(43770, 9, 0)

TimeZones == {"Etc/UTC", "Etc/GMT+8", "US/Pacific"}

\* The offset from UTC, in minutes, of zone tz at the instant t (a UTC
\* instant of 2019 for US/Pacific).
TzOffset(tz, t) ==
    CASE tz = "Etc/UTC" -> 0
      [] tz = "Etc/GMT+8" -> -480
      [] tz = "US/Pacific" ->
            IF DstStart2019 <= t /\ t < DstEnd2019 THEN -420 ELSE -480

\* dt.tz_localize('utc').dt.tz_convert(tz).dt.tz_localize(None)
ToLocalSubtractsOffset(t, tz) == t - TzOffset(tz, t)
ToLocal(t, tz) == t + TzOffset(tz, t)

\* x.weekday(): 0 is Monday; 1900-01-01 was a Monday.
Weekday(t) == (t \div 1440) % 7

\* x.hour
Hour(t) == (t \div 60) % 24

\* dt.strftime('%Y.%m.%d %r'): the text of the instant t in that format.
Strftime(t) == [format |-> "%Y.%m.%d %r", of |-> t]

\* id_map.get(chat_id, 'other')
Lookup(id_map, chat_id) ==
    IF chat_id \in DOMAIN id_map THEN id_map[chat_id] ELSE "other"

LocalizeRow(r, tz) ==
    [guid |-> r.guid, chat_id |-> r.chat_id, is_from_me |-> r.is_from_me,
     date_utc |-> r.date_utc, length |-> r.length, ioicon |-> r.ioicon,
     text |-> r.text,
     date_local |-> ToLocal(r.date_utc, tz),
     timestamp |-> Strftime(ToLocal(r.date_utc, tz)),
     weekday |-> Weekday(ToLocal(r.date_utc, tz)),
     hour |-> Hour(ToLocal(r.date_utc, tz))]

ContactRow(r, id_map) ==
    [guid |-> r.guid, chat_id |-> r.chat_id, is_from_me |-> r.is_from_me,
     date_utc |-> r.date_utc, length |-> r.length, ioicon |-> r.ioicon,
     text |-> r.text, date_local |-> r.date_local,
     timestamp |-> r.timestamp, weekday |-> r.weekday, hour |-> r.hour,
     contact |-> Lookup(id_map, r.chat_id)]

\* What a file argument can be: a file that cannot be read (or parsed), or a
\* file with its content.  id_file may also be None.
Unreadable == [kind |-> "unreadable"]
NoFile == [kind |-> "none"]
DataFile(rows) == [kind |-> "file", rows |-> rows]
IdFile(id_map) == [kind |-> "file", id_map |-> id_map]

Raised(error, shown) ==
    [kind |-> "raised", error |-> error, shown |-> shown, df |-> <<>>]
Returned(table, shown) ==
    [kind |-> "returned", error |-> "", shown |-> shown, df |-> table]

\* load_data(data_file, id_file, tz) on a pickled table that has rows.  A
\* failed read is caught and printed, and the function goes on: the name it
\* would have bound is unbound at its first use.
load_data(data_file, id_file, tz) ==
    IF data_file.kind = "unreadable"
    THEN Raised("UnboundLocalError", <<"Couldn't open data_file">>)
    ELSE LET local == [i \in DOMAIN data_file.rows |->
                          LocalizeRow(data_file.rows[i], tz)]
         IN  CASE id_file.kind = "none" -> Returned(local, <<>>)
               [] id_file.kind = "unreadable" ->
                     Raised("NameError", <<"Couldn't open id_file">>)
               [] id_file.kind = "file" ->
                     Returned([i \in DOMAIN local |->
                                  ContactRow(local[i], id_file.id_map)], <<>>)

\* The call load_data(data_file, id_file, tz), and df = its result.
LoadData(data_file, id_file, tz) ==
    /\ calls' = <<[op |-> "load_data", data_file |-> data_file,
                   id_file |-> id_file, tz |-> tz]>>
    /\ out' = load_data(data_file, id_file, tz)
    /\ df' = IF out'.kind = "returned" THEN out'.df ELSE df

NoOutcome == [kind |-> "none", error |-> "", shown |-> <<>>, df |-> <<>>]

---------------------------------------------------------------------------
(* The table an analysis script works on, and the calls it makes on it.    *)

\* The columns of the table load_data returns when given an id map.
Columns ==
    {"guid", "chat_id", "is_from_me", "date_utc", "length", "ioicon", "text",
     "date_local", "timestamp", "weekday", "hour", "contact"}

\* df = load_data("chat_df.pkl", "id_map.yaml", tz) on the rows `raw`.
Loaded(raw, id_map, tz) ==
    load_data(DataFile(Pickle(WithGuid(raw))), IdFile(id_map), tz).df

\* The table the next call of a chain is made on: df, or the table the call
\* before it returned, as in filt_any(filt_any(recent, ...), ...).
Input == IF calls = <<>> THEN df ELSE out.df

CanCall == calls = <<>> \/ out.kind = "returned"

\* No call was made on the table yet.
First == calls = <<>>

\* A call whose result is `result`; it leaves its argument as it was.
Call(call, result) ==
    /\ calls' = Append(calls, call)
    /\ out' = result
    /\ UNCHANGED df

\* The same call, had the function dropped the rows from its argument
\* (df.drop(..., inplace=True)) before returning it.
CallInPlace(call, result) ==
    /\ calls' = Append(calls, call)
    /\ out' = result
    /\ df' = IF calls = <<>> /\ result.kind = "returned" THEN result.df ELSE df

---------------------------------------------------------------------------
(* filt_date, filt_any, filt_func                                          *)

\* An argument left out of a call: the parameter takes its default.
Omitted == "(omitted)"

DefaultStart == "Jan 1, 1900"
DefaultEnd == "Jan 1, 2200"

\* dateutil's parse on the date strings used here: midnight of the day.
parse(s) ==
    CASE s = "Jan 1, 1900" -> At(0, 0, 0)
      [] s = "Jan 1, 2019" -> At(43464, 0, 0)
      [] s = "Jan 2, 2019" -> At(43465, 0, 0)
      [] s = "Jan 1, 2200" -> At(109573, 0, 0)

\* df[(df['date_local'] >= parse(start)) & (df['date_local'] < parse(end))]
filt_date_from_start(t, start, end) ==
    LET Keep(r) == r.date_local >= parse(start) /\ r.date_local < parse(end)
    IN  SelectSeq(t, Keep)

\* df[(df['date_local'] > parse(start)) & (df['date_local'] < parse(end))]
filt_date(t, start, end) ==
    LET Keep(r) == r.date_local > parse(start) /\ r.date_local < parse(end)
    IN  SelectSeq(t, Keep)

\* filt_any that returns the table as it is when given no values.
filt_any_or_all(t, by, vals) ==
    LET Keep(r) == r[by] \in vals
    IN  IF vals = {} THEN t ELSE SelectSeq(t, Keep)

\* df[df[by].isin(vals)]
filt_any(t, by, vals) ==
    LET Keep(r) == r[by] \in vals
    IN  SelectSeq(t, Keep)

\* df[(df[by].apply(func))], func a function from the field's values to
\* booleans.
filt_func(t, by, func) ==
    LET Keep(r) == func[r[by]]
    IN  SelectSeq(t, Keep)

WithDefault(arg, default) == IF arg = Omitted THEN default ELSE arg

\* filt_date, had it dropped the rows from its argument.
FiltDateInPlace(start, end) ==
    /\ CanCall
    /\ CallInPlace([op |-> "filt_date", start |-> start, end |-> end],
                   Returned(filt_date(Input, WithDefault(start, DefaultStart),
                                      WithDefault(end, DefaultEnd)), <<>>))

\* The call filt_date(t, start, end), either argument possibly left out.
FiltDate(start, end) ==
    /\ CanCall
    /\ Call([op |-> "filt_date", start |-> start, end |-> end],
            Returned(filt_date(Input, WithDefault(start, DefaultStart),
                               WithDefault(end, DefaultEnd)), <<>>))

\* The call filt_any(t, by, *vals); df[by] of a missing column raises.
FiltAny(by, vals) ==
    /\ CanCall
    /\ Call([op |-> "filt_any", by |-> by, vals |-> vals],
            IF by \in Columns
            THEN Returned(filt_any(Input, by, vals), <<>>)
            ELSE Raised("KeyError", <<>>))

\* The call filt_func(t, by, func).
FiltFunc(by, func) ==
    /\ CanCall
    /\ Call([op |-> "filt_func", by |-> by, func |-> func],
            IF by \in Columns
            THEN Returned(filt_func(Input, by, func), <<>>)
            ELSE Raised("KeyError", <<>>))

---------------------------------------------------------------------------
(* search, __highlight_re, context_search                                  *)

\* The lower case of a character of the texts used here.
Lower(c) ==
    CASE c = "A" -> "a"
      [] c = "N" -> "n"
      [] OTHER -> c

\* Two characters are the same, or the same ignoring case (re.IGNORECASE).
CharEq(a, b, case) == IF case THEN a = b ELSE Lower(a) = Lower(b)

\* The character p of a regular expression matches the character c: a dot
\* matches any character, a letter matches itself.
RegexCharMatches(p, c, case) == p = "." \/ CharEq(p, c, case)

\* re.compile(pat, flags).search(s): the pattern, a sequence of letters and
\* dots, matches somewhere in s.
RegexSearch(pat, s, case) ==
    \E pos \in 0..(Len(s) - Len(pat)) :
        \A k \in 1..Len(pat) : RegexCharMatches(pat[k], s[pos + k], case)

\* case as the call gives it: "True", "False", or left out.
DefaultCase == FALSE
CaseOf(arg) == IF arg = Omitted THEN DefaultCase ELSE arg = "True"

\* df[df['text'].str.contains(query, case=case)]: str.contains takes the
\* query as a regular expression (regex=True is its default).
search(t, query, case) ==
    LET Keep(r) == RegexSearch(query, r.text, case)
    IN  SelectSeq(t, Keep)

\* The escape sequences __highlight puts around a string.
HighlightOn == <<"ESC", "[", "4", "3", "m">>
HighlightOff == <<"ESC", "[", "0", "m">>

\* '\u001b[43m{}\u001b[0m'.format(string)
highlight(string) == HighlightOn \o string \o HighlightOff

\* re.escape(query) matches at pos (0-based) of s: letter by letter.
LiteralMatchesAt(query, s, pos, case) ==
    /\ pos + Len(query) <= Len(s)
    /\ \A k \in 1..Len(query) : CharEq(query[k], s[pos + k], case)

\* re.finditer(pattern, s): the spans <<start, end>> of the matches, left to
\* right, none overlapping another, from position pos on.
RECURSIVE FindIterFrom(_, _, _, _)
FindIterFrom(query, s, case, pos) ==
    LET at == {p \in pos..Len(s) : LiteralMatchesAt(query, s, p, case)}
    IN  IF at = {} THEN <<>>
        ELSE LET p == CHOOSE q \in at : \A q2 \in at : q <= q2
             IN  <<<<p, p + Len(query)>>>>
                   \o FindIterFrom(query, s, case,
                                   IF query = <<>> THEN p + 1
                                   ELSE p + Len(query))

FindIter(query, s, case) == FindIterFrom(query, s, case, 0)

\* The loop of __highlight_re: each span, found in the string as it was
\* passed in, is cut out of the string as it is by now.
RECURSIVE HighlightSpans(_, _, _)
HighlightSpans(string, spans, k) ==
    IF k > Len(spans) THEN string
    ELSE LET start == Min(spans[k][1], Len(string))
             end == Min(spans[k][2], Len(string))
         IN  HighlightSpans(Slice(string, 0, start)
                                \o highlight(Slice(string, start, end))
                                \o Slice(string, end, Len(string)),
                            spans, k + 1)

\* __highlight_re(string, query, case)
highlight_re(string, query, case) ==
    HighlightSpans(string, FindIter(query, string, case), 1)

\* around.assign(hltext = hltext), for one row.
AssignHltext(r, hltext) ==
    [guid |-> r.guid, chat_id |-> r.chat_id, is_from_me |-> r.is_from_me,
     date_utc |-> r.date_utc, length |-> r.length, ioicon |-> r.ioicon,
     text |-> r.text, date_local |-> r.date_local,
     timestamp |-> r.timestamp, weekday |-> r.weekday, hour |-> r.hour,
     contact |-> r.contact, hltext |-> hltext]

\* chat.index[chat['date_local'] == date].tolist()[0], 0-based.
FirstIndex(chat, date) ==
    (CHOOSE i \in DOMAIN chat :
        /\ chat[i].date_local = date
        /\ \A j \in 1..(i - 1) : chat[j].date_local # date) - 1

\* One pass of the loop of context_search, for the row `row` of the search
\* result: the contact, and the rows printed under it.
ContextBlock(t, row, query, case, radius) ==
    LET pal == row.contact
        date == row.date_local
        chat == filt_any(t, "contact", {pal})
        i == FirstIndex(chat, date)
        start == Max(0, i - radius)
        end == Min(Len(chat) - 1, i + radius + 1)
        around == Slice(chat, start, end)
    IN  [pal |-> pal, date |-> date,
         around |-> [k \in DOMAIN around |->
                        AssignHltext(around[k],
                                     highlight_re(around[k].text, query, case))]]

\* context_search(df, query, case, radius): what it prints, block by block.
context_search(t, query, case, radius) ==
    LET r == search(t, query, case)
    IN  [n \in DOMAIN r |-> ContextBlock(t, r[n], query, case, radius)]

Printed(blocks) ==
    [kind |-> "printed", error |-> "", shown |-> blocks, df |-> <<>>]

\* The call search(t, query, case).
Search(query, case) ==
    /\ CanCall
    /\ Call([op |-> "search", query |-> query, case |-> case],
            Returned(search(Input, query, CaseOf(case)), <<>>))

\* The call context_search(t, query, case, radius).
ContextSearch(query, case, radius) ==
    /\ CanCall
    /\ Call([op |-> "context_search", query |-> query, case |-> case,
             radius |-> radius],
            Printed(context_search(Input, query, CaseOf(case), radius)))

---------------------------------------------------------------------------
(* breakdown                                                               *)

RECURSIVE SumOver(_, _)
SumOver(f, S) ==
    IF S = {} THEN 0
    ELSE LET c == CHOOSE x \in S : TRUE
         IN  f[c] + SumOver(f, S \ {c})

\* df.groupby(by).count()['guid']: the number of rows of each value of by.
GroupCount(t, by) ==
    [c \in {t[i][by] : i \in DOMAIN t} |->
        Cardinality({i \in DOMAIN t : t[i][by] = c})]

\* One pass of the loop of breakdown on the counts `totals`, and the passes
\* after it.  A share pcnt = guid / total * 100 is compared with a sliver s
\* as guid * 100 with s * total.  Each pass plots the pie of the counts by
\* label; the next pass takes the rows whose share is below the sliver.
RECURSIVE BreakdownLoop(_, _, _)
BreakdownLoop(totals, slivers, i) ==
    IF i > Len(slivers) THEN <<>>
    ELSE LET total == SumOver(totals, DOMAIN totals)
             Label(c) == IF totals[c] * 100 > slivers[i] * total
                         THEN c ELSE "other"
             labels == {Label(c) : c \in DOMAIN totals}
             pie == [l \in labels |->
                        SumOver(totals, {c \in DOMAIN totals : Label(c) = l})]
             below == {c \in DOMAIN totals :
                          totals[c] * 100 < slivers[i] * total}
             rest == [c \in below |-> totals[c]]
         IN  <<[totals |-> totals, total |-> total, sliver |-> slivers[i],
                pie |-> pie]>>
               \o (IF below = {} THEN <<>>
                   ELSE BreakdownLoop(rest, slivers, i + 1))

\* breakdown(df, slivers, by) on a table that has rows: the pies it plots.
breakdown(t, slivers, by) == BreakdownLoop(GroupCount(t, by), slivers, 1)

Plotted(charts) ==
    [kind |-> "plotted", error |-> "", shown |-> charts, df |-> <<>>]

\* The call breakdown(t, slivers, by).
Breakdown(slivers, by) ==
    /\ CanCall
    /\ Input # <<>>
    /\ Call([op |-> "breakdown", slivers |-> slivers, by |-> by],
            Plotted(breakdown(Input, slivers, by)))

---------------------------------------------------------------------------
(* weekly_heatmap                                                          *)

NumWeekdays == 7
NumHours == 24
RollShift == -4

\* timesheet.reindex(np.arange(7)).reindex(np.arange(24), axis=1).fillna(0)
\* of the counts by weekday and hour: a grid with a number in every cell.
Timesheet(t) ==
    [w \in 0..(NumWeekdays - 1) |->
        [h \in 0..(NumHours - 1) |->
            Cardinality({i \in DOMAIN t :
                            t[i].weekday = w /\ t[i].hour = h})]]

\* np.roll(a, shift) with no axis: the grid is flattened row after row,
\* rotated, and cut into rows again.
np_roll(a, shift) ==
    LET n == NumWeekdays * NumHours
        flat == [j \in 0..(n - 1) |-> a[j \div NumHours][j % NumHours]]
        rolled == [j \in 0..(n - 1) |-> flat[(j - shift) % n]]
    IN  [w \in 0..(NumWeekdays - 1) |->
            [c \in 0..(NumHours - 1) |-> rolled[w * NumHours + c]]]

\* weekly_heatmap(df) on a table that has rows: the grid it shows.
weekly_heatmap(t) == np_roll(Timesheet(t), RollShift)

\* The call weekly_heatmap(t).
WeeklyHeatmap ==
    /\ CanCall
    /\ Input # <<>>
    /\ Call([op |-> "weekly_heatmap"], Plotted(weekly_heatmap(Input)))

---------------------------------------------------------------------------
(* The loader on its own: load_data called on any file, map and zone.      *)

MaxStoreRows == 2

\* 2019-01-01 08:00 UTC and the half hours around the two changes of the
\* offset of US/Pacific in 2019.
UtcSamples ==
    {At(43464, 8, 0), DstStart2019 - 30, DstStart2019,
     DstEnd2019 - 30, DstEnd2019}

IdMaps == {(1 :> "Mom") @@ (2 :> "Dad"), (1 :> "Mom")}

LoadStores ==
    {Pickle(WithGuid(t)) :
        t \in RawTables({1, 3}, {<<"a">>}, {TRUE}, UtcSamples, MaxStoreRows)
              \ {<<>>}}

InitLoad ==
    /\ df = <<>>
    /\ calls = <<>>
    /\ out = NoOutcome

\* A script loads its table once.
NextLoad ==
    /\ calls = <<>>
    /\ \E data_file \in {Unreadable} \cup {DataFile(s) : s \in LoadStores},
          id_file \in {NoFile, Unreadable} \cup {IdFile(m) : m \in IdMaps},
          tz \in TimeZones :
            LoadData(data_file, id_file, tz)

SpecLoad == InitLoad /\ [][NextLoad]_vars

LastCall == calls[Len(calls)]

LoadReturned ==
    /\ calls # <<>>
    /\ LastCall.op = "load_data"
    /\ out.kind = "returned"

\* C5 as claimed: in the table load_data returns, for any two records and
\* any zone, daylight saving included, an earlier date_utc has an earlier
\* date_local.
C5_LocalOrderFollowsUtc ==
    LoadReturned =>
        \A i, j \in DOMAIN out.df :
            out.df[i].date_utc < out.df[j].date_utc
                => out.df[i].date_local < out.df[j].date_local

\* C5 amended: an earlier date_utc has an earlier date_local whenever the
\* zone's offset at the later instant is not smaller than at the earlier
\* one (always so in a zone of fixed offset).
C5_LocalOrderFollowsUtcUnlessOffsetDrops ==
    LoadReturned =>
        \A i, j \in DOMAIN out.df :
            /\ out.df[i].date_utc < out.df[j].date_utc
            /\ TzOffset(LastCall.tz, out.df[i].date_utc)
                  <= TzOffset(LastCall.tz, out.df[j].date_utc)
            => out.df[i].date_local < out.df[j].date_local

\* C5's case: a table returned for a zone with daylight saving, holding two
\* records with the offset larger at the later one (winter, then summer).
C5_Witness ==
    /\ LoadReturned
    /\ \E i, j \in DOMAIN out.df :
        /\ out.df[i].date_utc < out.df[j].date_utc
        /\ TzOffset(LastCall.tz, out.df[i].date_utc)
              < TzOffset(LastCall.tz, out.df[j].date_utc)
        /\ out.df[i].date_local < out.df[j].date_local

\* C6: load_data fails with LoadError when the record store cannot be read
\* and with ConfigError when the identity map is given but cannot be read;
\* the failure is not swallowed and no table is returned.
C6_LoadFailuresByKind ==
    (calls # <<>> /\ LastCall.op = "load_data") =>
        /\ LastCall.data_file.kind = "unreadable"
              => out = Raised("LoadError", <<>>)
        /\ (LastCall.data_file.kind = "file"
                /\ LastCall.id_file.kind = "unreadable")
              => out = Raised("ConfigError", <<>>)

---------------------------------------------------------------------------
(* Chains of filters on a loaded table.                                    *)

MaxFilterRows == 3
MaxChain == 2

\* The instants of the date strings, and one between two of them.
LocalSamples ==
    {parse("Jan 1, 1900"), parse("Jan 1, 2019"), At(43464, 8, 0),
     parse("Jan 2, 2019"), parse("Jan 1, 2200")}

FullIdMap == (1 :> "Mom") @@ (2 :> "Dad")

InitFilter ==
    /\ \E raw \in RawTables({1, 3}, {<<"a">>}, {TRUE}, LocalSamples,
                            MaxFilterRows) :
          df = Loaded(raw, FullIdMap, "Etc/UTC")
    /\ calls = <<>>
    /\ out = NoOutcome

NextFilter ==
    \/ \E start \in {Omitted, "Jan 1, 2019"},
          end \in {Omitted, "Jan 2, 2019"} :
          Len(calls) < MaxChain /\ FiltDate(start, end)
    \/ \E vals \in SUBSET {"Mom", "other"} :
          Len(calls) < MaxChain /\ FiltAny("contact", vals)

SpecFilter == InitFilter /\ [][NextFilter]_vars

\* Row r of df is a row of the table t.
Kept(r, t) == \E j \in DOMAIN t : t[j] = r

\* C8: filt_date keeps exactly the records with start < date_local < end,
\* both bounds strict (a record at start or at end is dropped, every record
\* strictly between is kept), and a bound left out drops no record on its
\* side that lies between 1900-01-01 and 2200-01-01.
C8_FiltDateStrict ==
    (Len(calls) = 1 /\ calls[1].op = "filt_date") =>
        LET lo == IF calls[1].start = Omitted THEN At(0, 0, 0)
                  ELSE parse(calls[1].start)
            hi == IF calls[1].end = Omitted THEN At(109573, 0, 0)
                  ELSE parse(calls[1].end)
        IN  /\ out.kind = "returned"
            /\ \A i \in DOMAIN df :
                  Kept(df[i], out.df)
                      <=> (lo < df[i].date_local /\ df[i].date_local < hi)
            /\ \A j \in DOMAIN out.df : Kept(out.df[j], df)
            /\ \A i \in DOMAIN df :
                  /\ calls[1].start = Omitted
                  /\ At(0, 0, 0) < df[i].date_local
                  /\ df[i].date_local < hi
                  => Kept(df[i], out.df)
            /\ \A i \in DOMAIN df :
                  /\ calls[1].end = Omitted
                  /\ df[i].date_local < At(109573, 0, 0)
                  /\ lo < df[i].date_local
                  => Kept(df[i], out.df)

\* C8's case: filt_date with both bounds given dropped a record at start and
\* a record at end and kept one between them.
C8_Witness ==
    /\ Len(calls) = 1
    /\ calls[1].op = "filt_date"
    /\ calls[1].start # Omitted
    /\ calls[1].end # Omitted
    /\ \E i \in DOMAIN df : df[i].date_local = parse(calls[1].start)
    /\ \E i \in DOMAIN df :
          /\ parse(calls[1].start) < df[i].date_local
          /\ df[i].date_local < parse(calls[1].end)
          /\ Kept(df[i], out.df)
    /\ Len(out.df) < Len(df)

\* C9: filt_date then filt_any returns the same records in the same order
\* as filt_any then filt_date, and filt_any with no values returns an empty
\* table.
C9_FiltersCommute ==
    /\ (/\ Len(calls) = 2
        /\ calls[1].op = "filt_date"
        /\ calls[2].op = "filt_any") =>
            out.df = filt_date(filt_any(df, calls[2].by, calls[2].vals),
                               WithDefault(calls[1].start, DefaultStart),
                               WithDefault(calls[1].end, DefaultEnd))
    /\ (/\ Len(calls) = 2
        /\ calls[1].op = "filt_any"
        /\ calls[2].op = "filt_date") =>
            out.df = filt_any(filt_date(df,
                                   WithDefault(calls[2].start, DefaultStart),
                                   WithDefault(calls[2].end, DefaultEnd)),
                              calls[1].by, calls[1].vals)
    /\ (/\ calls # <<>>
        /\ LastCall.op = "filt_any"
        /\ LastCall.vals = {}) => out.df = <<>>

\* C9's case: filt_date then filt_any, each of which dropped a record and
\* together kept one.
C9_Witness ==
    /\ Len(calls) = 2
    /\ calls[1].op = "filt_date"
    /\ calls[2].op = "filt_any"
    /\ out.df # <<>>
    /\ Len(filt_any(df, calls[2].by, calls[2].vals)) < Len(df)
    /\ Len(out.df) < Len(filt_any(df, calls[2].by, calls[2].vals))

---------------------------------------------------------------------------
(* Searches of a loaded table.                                             *)

MaxSearchRows == 2
MaxTextLen == 2
MaxQueryLen == 2

Alphabet == {"a", "A", ".", "N"}

SearchTexts == SeqsUpTo(Alphabet, MaxTextLen) \cup {NoText}

Queries == SeqsUpTo(Alphabet, MaxQueryLen) \ {<<>>}

CaseArgs == {Omitted, "True", "False"}

InitSearch ==
    /\ \E raw \in RawTables({1}, SearchTexts, {TRUE}, {At(43464, 8, 0)},
                            MaxSearchRows) :
          df = Loaded(raw, FullIdMap, "Etc/UTC")
    /\ calls = <<>>
    /\ out = NoOutcome

NextSearch ==
    \/ \E query \in Queries, case \in CaseArgs :
          First /\ Search(query, case)
    \/ \E query \in Queries, case \in CaseArgs, radius \in 0..1 :
          First /\ ContextSearch(query, case, radius)

SpecSearch == InitSearch /\ [][NextSearch]_vars

\* The sequence m stands in s at position p (1-based).
StartsAt(s, p, m) ==
    /\ p + Len(m) - 1 <= Len(s)
    /\ SubSeq(s, p, p + Len(m) - 1) = m

\* s with every escape sequence of a highlight taken out, from position p.
RECURSIVE StripFrom(_, _)
StripFrom(s, p) ==
    IF p > Len(s) THEN <<>>
    ELSE IF StartsAt(s, p, HighlightOn) THEN StripFrom(s, p + 5)
    ELSE IF StartsAt(s, p, HighlightOff) THEN StripFrom(s, p + 4)
    ELSE <<s[p]>> \o StripFrom(s, p + 1)

StripMarkers(s) == StripFrom(s, 1)

\* The spans <<start, end>>, in the stripped text, of the segments of s that
\* stand between a highlight's two escape sequences; n counts the stripped
\* characters so far and open is where the open segment began (-1: none).
RECURSIVE MarkedFrom(_, _, _, _)
MarkedFrom(s, p, n, open) ==
    IF p > Len(s) THEN <<>>
    ELSE IF StartsAt(s, p, HighlightOn) THEN MarkedFrom(s, p + 5, n, n)
    ELSE IF StartsAt(s, p, HighlightOff)
         THEN (IF open >= 0 THEN <<<<open, n>>>> ELSE <<>>)
                  \o MarkedFrom(s, p + 4, n, -1)
    ELSE MarkedFrom(s, p + 1, n + 1, open)

MarkedSpans(s) == MarkedFrom(s, 1, 0, -1)

\* The record is one whose text was absent: sql2pandas gave it length 0 and
\* the text None.
AbsentText(r) == r.length = 0 /\ r.text # <<>>

\* query stands in s as a literal substring.
Contains(s, query, case) ==
    \E pos \in 0..Len(s) : LiteralMatchesAt(query, s, pos, case)

\* C2: with the highlight's escape sequences removed a highlighted text is
\* the original text, and the highlighted segments are exactly the
\* non-overlapping left-to-right occurrences of the (non-empty) query.
C2_HighlightMarksEveryOccurrence ==
    (calls # <<>> /\ LastCall.op = "context_search") =>
        \A n \in DOMAIN out.shown :
            \A k \in DOMAIN out.shown[n].around :
                LET line == out.shown[n].around[k]
                IN  /\ StripMarkers(line.hltext) = line.text
                    /\ MarkedSpans(line.hltext)
                          = FindIter(LastCall.query, line.text,
                                     CaseOf(LastCall.case))

\* C7: search returns exactly the records whose text has the query as a
\* literal substring (ignoring case unless case is true, which is the
\* default), never one whose text is absent, in their order in the table.
C7_SearchIsLiteralSubstring ==
    (Len(calls) = 1 /\ calls[1].op = "search") =>
        LET Match(r) ==
                /\ ~AbsentText(r)
                /\ Contains(r.text, calls[1].query, CaseOf(calls[1].case))
        IN  out.df = SelectSeq(df, Match)

---------------------------------------------------------------------------
(* Context searches of a loaded table with several contacts and dates.     *)

MaxContextRows == 4
MaxRadius == 2

InitContext ==
    /\ \E raw \in RawTables({1, 3}, {<<"a">>, <<".">>}, {TRUE},
                            {At(43464, 8, 0), At(43465, 0, 0)},
                            MaxContextRows) :
          df = Loaded(raw, FullIdMap, "Etc/UTC")
    /\ calls = <<>>
    /\ out = NoOutcome

NextContext ==
    \E case \in CaseArgs, radius \in 0..MaxRadius :
        First /\ ContextSearch(<<"a">>, case, radius)

SpecContext == InitContext /\ [][NextContext]_vars

\* The records of one contact, in the table's (date) order.
Timeline(pal) ==
    LET Keep(r) == r.contact = pal
    IN  SelectSeq(df, Keep)

Guids(t) == [k \in DOMAIN t |-> t[k].guid]

\* C1: for every hit, with i the first position in the contact's timeline
\* whose date_local is the hit's, the printed window is exactly the timeline
\* records max(0, i - radius) .. min(len - 1, i + radius), both included, so
\* it always holds the matching record.
C1_WindowAroundMatch ==
    (Len(calls) = 1 /\ calls[1].op = "context_search") =>
        LET hits == search(df, calls[1].query, CaseOf(calls[1].case))
        IN  /\ Len(out.shown) = Len(hits)
            /\ \A n \in DOMAIN out.shown :
                  LET chat == Timeline(hits[n].contact)
                      i == FirstIndex(chat, hits[n].date_local)
                      lo == Max(0, i - calls[1].radius)
                      hi == Min(Len(chat) - 1, i + calls[1].radius)
                  IN  /\ Guids(out.shown[n].around)
                            = Guids(SubSeq(chat, lo + 1, hi + 1))
                      /\ \E k \in DOMAIN out.shown[n].around :
                            out.shown[n].around[k].guid = chat[i + 1].guid

---------------------------------------------------------------------------
(* Breakdowns of a loaded table by contact.                                *)

\* How many messages a chat may hold.
ChatSizes == {0, 1, 2, 3, 5, 6, 10}

Slivers == {10, 20, 25}
MaxSlivers == 2

\* n rows of chat chat_id, all of one instant.
RECURSIVE ChatRows(_, _)
ChatRows(chat_id, n) ==
    IF n = 0 THEN <<>>
    ELSE ChatRows(chat_id, n - 1)
            \o <<[chat_id |-> chat_id, text |-> <<"a">>, is_from_me |-> TRUE,
                  date_utc |-> At(43464, 8, 0)]>>

ThreeNames == (1 :> "Mom") @@ (2 :> "Dad") @@ (3 :> "Sis")

InitBreakdown ==
    /\ \E n1, n2, n3, n4 \in ChatSizes :
          df = Loaded(ChatRows(1, n1) \o ChatRows(2, n2) \o ChatRows(3, n3)
                          \o ChatRows(4, n4),
                      ThreeNames, "Etc/UTC")
    /\ calls = <<>>
    /\ out = NoOutcome

NextBreakdown ==
    \E slivers \in SeqsUpTo(Slivers, MaxSlivers) :
        First /\ Breakdown(slivers, "contact")

SpecBreakdown == InitBreakdown /\ [][NextBreakdown]_vars

\* The categories a pass merges into "other": those it does not keep under
\* their own label.
Merged(stage) ==
    {c \in DOMAIN stage.totals :
        ~(stage.totals[c] * 100 > stage.sliver * stage.total)}

\* C3: each pass that follows another breaks down exactly the categories
\* the pass before it merged into "other" (none lost, none added, one whose
\* share equals the sliver included), their shares taken of the number of
\* records of those categories.
C3_CascadeBreaksDownOther ==
    (calls # <<>> /\ LastCall.op = "breakdown") =>
        \A k \in 1..(Len(out.shown) - 1) :
            /\ DOMAIN out.shown[k + 1].totals = Merged(out.shown[k])
            /\ \A c \in Merged(out.shown[k]) :
                  out.shown[k + 1].totals[c] = out.shown[k].totals[c]
            /\ out.shown[k + 1].total
                  = SumOver(out.shown[k].totals, Merged(out.shown[k]))

---------------------------------------------------------------------------
(* Weekly heatmaps of a loaded table.                                      *)

MaxHeatRows == 2

HeatHours == {0, 3, 4, 14, 23}

\* The hours HeatHours of the seven days from 2019-01-01 on.
HeatSamples ==
    {At(43464 + d, h, 0) : d \in 0..(NumWeekdays - 1), h \in HeatHours}

InitHeatmap ==
    /\ \E raw \in RawTables({1}, {<<"a">>}, {TRUE}, HeatSamples,
                            MaxHeatRows) :
          df = Loaded(raw, FullIdMap, "Etc/UTC")
    /\ calls = <<>>
    /\ out = NoOutcome

NextHeatmap == First /\ WeeklyHeatmap

SpecHeatmap == InitHeatmap /\ [][NextHeatmap]_vars

\* The number of records of weekday w and hour h.
CountAt(w, h) ==
    Cardinality({i \in DOMAIN df : df[i].weekday = w /\ df[i].hour = h})

HeatmapShown ==
    /\ calls # <<>>
    /\ LastCall.op = "weekly_heatmap"

IsGrid(g) ==
    /\ DOMAIN g = 0..6
    /\ \A w \in 0..6 : DOMAIN g[w] = 0..23

\* C4: the heatmap is a 7 x 24 grid, and for every weekday w and hour h the
\* cell at row w, column (h - 4) mod 24 is the number of records of weekday
\* w and hour h, 0 when there are none.
C4_RowHoldsItsWeekday ==
    HeatmapShown =>
        /\ IsGrid(out.shown)
        /\ \A w \in 0..6, h \in 0..23 :
              out.shown[w][(h - 4) % 24] = CountAt(w, h)

\* What the grid holds instead: the count of weekday w and hour h is at
\* column (h - 4) mod 24 of row w when h >= 4, and of row (w - 1) mod 7 when
\* h < 4.
HeatmapRowsRunFrom4am ==
    HeatmapShown =>
        /\ IsGrid(out.shown)
        /\ \A w \in 0..6, h \in 0..23 :
              out.shown[IF h >= 4 THEN w ELSE (w - 1) % 7][(h - 4) % 24]
                  = CountAt(w, h)

---------------------------------------------------------------------------
(* Every operation, alone and chained, on a loaded table.                  *)

MaxOpsRows == 2
MaxOpsChain == 2

\* lambda weekday: weekday in (0, 2, 4)
MonWedFri == [w \in 0..6 |-> w \in {0, 2, 4}]

InitOps ==
    /\ \E raw \in RawTables({1, 3}, {<<"a">>, <<>>}, {TRUE},
                            {At(43464, 8, 0), At(43465, 0, 0)}, MaxOpsRows) :
          df = Loaded(raw, FullIdMap, "Etc/UTC")
    /\ calls = <<>>
    /\ out = NoOutcome

More == Len(calls) < MaxOpsChain

NextOps ==
    \/ \E start \in {Omitted, "Jan 1, 2019"} :
          More /\ FiltDate(start, "Jan 2, 2019")
    \/ \E by \in {"contact", "sender"}, vals \in {{"Mom"}, {}} :
          More /\ FiltAny(by, vals)
    \/ More /\ FiltFunc("weekday", MonWedFri)
    \/ More /\ Search(<<"a">>, Omitted)
    \/ More /\ ContextSearch(<<"a">>, Omitted, 1)
    \/ More /\ Breakdown(<<25>>, "contact")
    \/ More /\ WeeklyHeatmap

SpecOps == InitOps /\ [][NextOps]_vars

\* a is b with some of its elements left out.
RECURSIVE IsSubSeq(_, _)
IsSubSeq(a, b) ==
    IF a = <<>> THEN TRUE
    ELSE IF b = <<>> THEN FALSE
    ELSE IF Head(a) = Head(b) THEN IsSubSeq(Tail(a), Tail(b))
    ELSE IsSubSeq(a, Tail(b))

\* C10: no operation changes the table it is called on (the loaded table
\* has the same rows, in the same order, with the same values after any
\* sequence of calls), and the table a filter returns is its input with
\* some rows left out, the others in their order.
C10_InputUnchanged ==
    [][/\ df' = df
       /\ (out'.kind = "returned" /\ calls' # calls)
             => IsSubSeq(out'.df, Input)]_vars

\* C10's case: two chained calls were made, the first a filter that left
\* rows out, and the loaded table still has its rows.
C10_Witness ==
    /\ Len(calls) = 2
    /\ calls[1].op = "filt_date"
    /\ calls[2].op = "filt_any"
    /\ out.kind = "returned"
    /\ Len(df) = 2
    /\ Len(out.df) = 1
    /\ Len(filt_date(df, WithDefault(calls[1].start, DefaultStart),
                     calls[1].end)) = 1

===========================================================================
